---- MODULE Spec2Model ----
(***************************************************************************)
(* Model of the three scraper variants kept in src/index.js:               *)
(*   variant 1  lines    1 ..  982  (Blinkit, setLocation)                 *)
(*   variant 2  lines  983 .. 1525  (Blinkit, setDeliveryLocation)         *)
(*   variant 3  lines 1526 .. 2058  (Zepto,   setPincodeLocation)          *)
(* Spec        the crawler run: request queue, retries, page sessions, the *)
(*             phases of requestHandler, failedRequestHandler, the sink    *)
(*             and the FAILED_URLS key of the key-value store.             *)
(* A page session is interleaved with the others at its awaits; one action *)
(* is one stretch of a handler between two awaits that matter to shared    *)
(* state.                                                                  *)
(***************************************************************************)
EXTENDS Integers, Sequences, FiniteSets, TLC

\* ------------------------------------------------------------------ bounds
MaxUrls == 2
MaxRetries == 1
MaxProducts == 2
MaxScrollCount == 4
MaxItems == 2
MaxCards == 2
MaxPrice == 201
MaxClock == 2

\* maxConcurrency = 2 is variant 2's default; variant 3 passes maxConcurrency: 1
DefaultMaxConcurrency == 2

\* ------------------------------------------------------------------ state
VARIABLES
    variant,              \* which of the three scripts runs
    nUrls,                \* allSearchUrls.length
    maxRequestRetries,    \* input.maxRequestRetries
    maxConcurrency,       \* PlaywrightCrawler option maxConcurrency
    locationRequested,    \* variant 2: pincode || deliveryLocation
    maxProductsPerSearch, \* input.maxProductsPerSearch
    mainPc,               \* top level: "init", "running", "exited"
    queue,                \* the crawler's request queue (URL indexes)
    pc,                   \* per URL: where its request / handler is
    retryCount,           \* per URL: request.retryCount
    phases,               \* per URL: phases the current attempt has finished
    listing,              \* per URL: "yes"/"no": a product card appeared while waiting
    resultsFound,         \* per URL: what waitForSearchResults returned
    products,             \* per URL: products.length of this attempt
    savedCount,           \* per URL: records this attempt has appended
    locRet,               \* per URL: what the location setup returned
    sink,                 \* per URL: record indexes appended to the Dataset
    FAILED_URLS,          \* the value under key FAILED_URLS
    failedUrls,           \* per URL: failedRequestHandler's local array
    locationSetGlobally,  \* variant 3's flag
    locCalls,             \* per URL: its handler has invoked the location setup
    locReturns            \* what the first request's location setup has returned so far:
                          \* "none", "false", or "true" once some invocation returned true

runVars == <<variant, nUrls, maxRequestRetries, maxConcurrency, locationRequested,
             maxProductsPerSearch, mainPc, queue, pc, retryCount, phases, listing,
             resultsFound, products, savedCount, locRet, sink, FAILED_URLS,
             failedUrls, locationSetGlobally, locCalls, locReturns>>

\* The location setup function of the variant, one page operation group per step.
VARIABLES
    lpc,                  \* where the function is: a stage name, or "returned"
    lidx,                 \* index into the stage's selector list
    lflag,                \* the stage's flag (locationButtonClicked, inputFilled, ...)
    lacts,                \* what has been done to the page so far, in order
    lret,                 \* "none", or what the caller got: "true", "false", "threw"
    lsteps                \* steps taken

locVars == <<lpc, lidx, lflag, lacts, lret, lsteps>>

\* autoScroll of the variant, one loop iteration per step.
VARIABLES
    spc,                  \* "idle", "loop", "returned"
    scrollCount,          \* the configured number of iterations
    scrollContainerSelector, \* variant 1: a container selector was passed
    si,                   \* the loop variable i
    sIssued,              \* scroll-advance commands the page has executed
    sItems,               \* the page's item count; the function never reads it
    sStable,              \* consecutive iterations that left the item count as it was
    sRejected             \* "none", or how a rejected page operation was handled:
                          \* "swallowed" (the loop went on) or "caught" (the catch block)

scrollVars == <<spc, scrollCount, scrollContainerSelector, si, sIssued, sItems,
                sStable, sRejected>>

\* The extractor of the variant, applied to one page.
VARIABLES
    epc,                  \* "idle", "ready", "done"
    epage,                \* the page's product cards, in document order
    estate,               \* variant 2: the candidates of the preloaded state
    eresult,              \* the records the extractor returned
    etier,                \* the tier that produced them
    ethrew                \* indexes of the cards whose processing threw

extVars == <<epc, epage, estate, eresult, etier, ethrew>>

\* The price and discount fields the extractor derives for one card.
VARIABLES
    qpc,                  \* "idle", "ready", "done"
    qcurrent,             \* currentPrice parsed from the card, or null
    qoriginal,            \* originalPrice parsed from the strikethrough price, or null
    qbadge,               \* the N of an "N% OFF" text in the card, or null
    qother,               \* the card has a name or an image (variant 1: or an id)
    qemitted,             \* the card passed the guard and a record was pushed
    qdiscount             \* the record's discountPercentage

priceVars == <<qpc, qcurrent, qoriginal, qbadge, qother, qemitted, qdiscount>>

\* The image, stock flag and time stamp the extractor derives for one card,
\* on two runs over the same page.
VARIABLES
    kpc,                  \* "idle", "ready", "once", "twice"
    kcard,                \* what the card (or state candidate) holds, and its tier
    know,                 \* the clock: new Date() of the latest run
    kfirst,               \* the record of the first run
    ksecond               \* the record of the second run

cardVars == <<kpc, kcard, know, kfirst, ksecond>>

notRunVars == <<locVars, scrollVars, extVars, priceVars, cardVars>>

vars == <<runVars, locVars, scrollVars, extVars, priceVars, cardVars>>

\* No card is being read.
CardIdle ==
    /\ kpc = "idle"
    /\ kcard = << >>
    /\ know = 0
    /\ kfirst = << >>
    /\ ksecond = << >>

\* No card is being priced.
PriceIdle ==
    /\ qpc = "idle"
    /\ qcurrent = << >>
    /\ qoriginal = << >>
    /\ qbadge = << >>
    /\ qother = FALSE
    /\ qemitted = FALSE
    /\ qdiscount = << >>

\* autoScroll is not running.
ScrollIdle ==
    /\ spc = "idle"
    /\ scrollCount = 0
    /\ scrollContainerSelector = FALSE
    /\ si = 0
    /\ sIssued = 0
    /\ sItems = 0
    /\ sStable = 0
    /\ sRejected = "none"

\* The extractor is not running.
ExtractIdle ==
    /\ epc = "idle"
    /\ epage = << >>
    /\ estate = << >>
    /\ eresult = << >>
    /\ etier = "none"
    /\ ethrew = {}

\* The function is not running.
LocIdle ==
    /\ lpc = "idle"
    /\ lidx = 0
    /\ lflag = FALSE
    /\ lacts = << >>
    /\ lret = "none"
    /\ lsteps = 0

Variants == 1..3
Urls == 1..nUrls
AllUrls == 1..MaxUrls

Min(a, b) == IF a < b THEN a ELSE b

Range(s) == {s[i] : i \in DOMAIN s}

\* ------------------------------------------------------- handler decisions

\* request.userData.isFirstRequest / isFirst: index === 0
IsFirstRequest(u) == u = 1

\* The crawler's limit on concurrent page sessions.  Variant 1 passes no
\* maxConcurrency, so the pool is limited only by the number of requests.
ConcurrencyLimit ==
    IF variant = 1 THEN nUrls ELSE maxConcurrency

\* (mutant: the handler not looking at isFirstRequest / isFirst)
MutCallsLocation(u) ==
    CASE variant = 1 -> TRUE
      [] variant = 2 -> locationRequested
      [] variant = 3 -> ~locationSetGlobally

\* Whether the handler calls the location setup.
CallsLocation(u) ==
    CASE variant = 1 -> TRUE
      [] variant = 2 -> locationRequested /\ IsFirstRequest(u)
      [] variant = 3 -> IsFirstRequest(u) /\ ~locationSetGlobally

\* The handler's first step after the crawler has navigated to the URL.
FirstPhase(u) ==
    IF variant = 3 /\ CallsLocation(u) THEN "loc" ELSE "load"

\* After the initial waitForLoadState / waitForTimeout.
AfterLoad(u) ==
    IF variant \in {1, 2} /\ CallsLocation(u) THEN "loc" ELSE "wait"

\* After the location setup has returned ret: the result is ignored
\* (variants 1, 2) or only stored in the flag (variant 3).
\* (mutant: a handler that gives up when the location setup failed)
MutAfterLocation(ret) ==
    IF ret THEN (CASE variant = 1 -> "wait" [] variant = 2 -> "postloc" [] variant = 3 -> "load")
    ELSE "handled"

AfterLocation(ret) ==
    CASE variant = 1 -> "wait"
      [] variant = 2 -> "postloc"
      [] variant = 3 -> "load"

\* waitForSearchResults: appeared = the product card selector matched,
\* other = a secondary selector matched (variant 1) or the body text holds a
\* price or ADD (variant 3's fallback).
waitForSearchResults(appeared, other) ==
    CASE variant = 1 -> appeared \/ other
      [] variant = 2 -> appeared
      [] variant = 3 -> appeared \/ other

\* (mutant: the handler without its "if (!resultsFound) return")
MutAfterWait(found) ==
    "scroll"

AfterWait(found) ==
    IF variant = 1 THEN "scroll"
    ELSE IF found THEN "scroll" ELSE "handled"

\* (mutant: the handler scrolling again instead of extracting)
MutAfterScroll ==
    "scroll"

\* After autoScroll returned.
AfterScroll ==
    "extract"

\* (mutant: the handler without its "if (products.length === 0) return")
MutAfterExtract(n) ==
    "save"

\* After the extractor returned n products.
AfterExtract(n) ==
    IF n = 0 THEN "handled" ELSE "save"

\* The request-scoped keys the handler of script v sets on a record before
\* it pushes the record to the dataset.
MetadataKeys(v) ==
    CASE v = 1 -> {"searchQuery", "searchUrl", "platform", "requestedPincode"}
      [] v = 2 -> {"searchQuery", "requestedPincode", "deliveryLocation",
                   "platform"}
      [] v = 3 -> {"searchQuery", "searchUrl", "platform", "pincode"}

\* (mutant: the save loop over all of products, without the slice)
MutToSave(n) ==
    n

\* products.slice(0, maxProductsPerSearch).length
ToSave(n) ==
    Min(n, maxProductsPerSearch)

\* ------------------------------------------------------------------ Init

InitRun ==
    /\ variant \in Variants
    /\ nUrls \in 0..MaxUrls
    /\ maxRequestRetries \in 0..MaxRetries
    /\ maxConcurrency = (IF variant = 2 THEN DefaultMaxConcurrency ELSE 1)
    /\ locationRequested \in (IF variant = 2 THEN BOOLEAN ELSE {TRUE})
    /\ maxProductsPerSearch \in 1..MaxProducts
    /\ mainPc = "init"
    /\ queue = << >>
    /\ pc = [u \in AllUrls |-> "none"]
    /\ retryCount = [u \in AllUrls |-> 0]
    /\ phases = [u \in AllUrls |-> << >>]
    /\ listing = [u \in AllUrls |-> "none"]
    /\ resultsFound = [u \in AllUrls |-> "none"]
    /\ products = [u \in AllUrls |-> 0]
    /\ savedCount = [u \in AllUrls |-> 0]
    /\ locRet = [u \in AllUrls |-> "none"]
    /\ sink = [u \in AllUrls |-> << >>]
    /\ FAILED_URLS = << >>
    /\ failedUrls = [u \in AllUrls |-> << >>]
    /\ locationSetGlobally = FALSE
    /\ locCalls = [u \in AllUrls |-> FALSE]
    /\ locReturns = "none"
    /\ LocIdle
    /\ ScrollIdle
    /\ ExtractIdle
    /\ PriceIdle
    /\ CardIdle

\* --------------------------------------------------------------- actions

Running == {u \in Urls : pc[u] \notin {"none", "queued", "handled", "failed"}}

\* (mutant: a start that runs the crawler whatever the input)
MutHasTargets ==
    TRUE

\* if (allSearchUrls.length > 0)
HasTargets ==
    nUrls > 0

\* if (allSearchUrls.length > 0) crawler.run(requests) else nothing; exit
MainStart ==
    /\ mainPc = "init"
    /\ IF HasTargets
       THEN /\ mainPc' = "running"
            /\ queue' = [i \in 1..nUrls |-> i]
            /\ pc' = [u \in AllUrls |-> IF u \in Urls THEN "queued" ELSE "none"]
       ELSE /\ mainPc' = "exited"
            /\ UNCHANGED <<queue, pc>>
    /\ UNCHANGED <<notRunVars, variant, nUrls, maxRequestRetries, maxConcurrency, locationRequested,
                   maxProductsPerSearch, retryCount, phases, listing, resultsFound,
                   products, savedCount, locRet, sink, FAILED_URLS, failedUrls,
                   locationSetGlobally, locCalls, locReturns>>

\* crawler.run resolves when every request is handled or failed; Actor.exit
MainExit ==
    /\ mainPc = "running"
    /\ queue = << >>
    /\ \A u \in Urls : pc[u] \in {"handled", "failed"}
    /\ mainPc' = "exited"
    /\ UNCHANGED <<notRunVars, variant, nUrls, maxRequestRetries, maxConcurrency, locationRequested,
                   maxProductsPerSearch, queue, pc, retryCount, phases, listing,
                   resultsFound, products, savedCount, locRet, sink, FAILED_URLS,
                   failedUrls, locationSetGlobally, locCalls, locReturns>>

\* The crawler takes the next request, navigates and enters requestHandler.
StartRequest(u) ==
    /\ mainPc = "running"
    /\ queue # << >>
    /\ Head(queue) = u
    /\ Cardinality(Running) < ConcurrencyLimit
    /\ queue' = Tail(queue)
    /\ pc' = [pc EXCEPT ![u] = FirstPhase(u)]
    /\ locCalls' = [locCalls EXCEPT ![u] = @ \/ FirstPhase(u) = "loc"]
    /\ phases' = [phases EXCEPT ![u] = << >>]
    /\ listing' = [listing EXCEPT ![u] = "none"]
    /\ resultsFound' = [resultsFound EXCEPT ![u] = "none"]
    /\ products' = [products EXCEPT ![u] = 0]
    /\ savedCount' = [savedCount EXCEPT ![u] = 0]
    /\ locRet' = [locRet EXCEPT ![u] = "none"]
    /\ UNCHANGED <<notRunVars, variant, nUrls, maxRequestRetries, maxConcurrency, locationRequested,
                   maxProductsPerSearch, mainPc, retryCount, sink, FAILED_URLS,
                   failedUrls, locationSetGlobally, locReturns>>

\* (mutant: a crawler that allows one retry too many)
MutMayRetry(u) ==
    retryCount[u] <= maxRequestRetries

\* The crawler retries a request while retryCount < maxRequestRetries.
MayRetry(u) ==
    retryCount[u] < maxRequestRetries

\* requestHandler rethrows; the crawler retries the request while
\* retryCount < maxRequestRetries, else it calls failedRequestHandler.
HandlerThrows(u) ==
    /\ phases' = [phases EXCEPT ![u] = << >>]
    /\ listing' = [listing EXCEPT ![u] = "none"]
    /\ resultsFound' = [resultsFound EXCEPT ![u] = "none"]
    /\ products' = [products EXCEPT ![u] = 0]
    /\ savedCount' = [savedCount EXCEPT ![u] = 0]
    /\ locRet' = [locRet EXCEPT ![u] = "none"]
    /\ IF MayRetry(u)
       THEN /\ retryCount' = [retryCount EXCEPT ![u] = @ + 1]
            /\ queue' = Append(queue, u)
            /\ pc' = [pc EXCEPT ![u] = "queued"]
       ELSE /\ pc' = [pc EXCEPT ![u] = "failedGet"]
            /\ UNCHANGED <<retryCount, queue>>

\* await page.waitForLoadState(...); await page.waitForTimeout(...)
Load(u) ==
    /\ pc[u] = "load"
    /\ \E threw \in BOOLEAN :
         IF threw
         THEN /\ HandlerThrows(u)
              /\ UNCHANGED locCalls
         ELSE /\ pc' = [pc EXCEPT ![u] = AfterLoad(u)]
              /\ locCalls' = [locCalls EXCEPT ![u] = @ \/ AfterLoad(u) = "loc"]
              /\ UNCHANGED <<retryCount, queue, phases, listing, resultsFound, products,
                             savedCount, locRet>>
    /\ UNCHANGED <<notRunVars, variant, nUrls, maxRequestRetries, maxConcurrency, locationRequested,
                   maxProductsPerSearch, mainPc, sink, FAILED_URLS, failedUrls,
                   locationSetGlobally, locReturns>>

\* The location setup returns true or false (it never throws).
LocationReturns(u) ==
    /\ pc[u] = "loc"
    /\ \E ret \in BOOLEAN :
         /\ locRet' = [locRet EXCEPT ![u] = IF ret THEN "true" ELSE "false"]
         /\ locationSetGlobally' = IF variant = 3 THEN ret ELSE locationSetGlobally
         /\ pc' = [pc EXCEPT ![u] = AfterLocation(ret)]
    /\ phases' = [phases EXCEPT ![u] = Append(@, "location")]
    /\ locReturns' = IF ~IsFirstRequest(u) THEN locReturns
                     ELSE IF locRet'[u] = "true" \/ locReturns = "true" THEN "true"
                     ELSE "false"
    /\ UNCHANGED <<notRunVars, variant, nUrls, maxRequestRetries, maxConcurrency, locationRequested,
                   maxProductsPerSearch, mainPc, queue, retryCount, listing, resultsFound,
                   products, savedCount, sink, FAILED_URLS, failedUrls, locCalls>>

\* variant 2: await page.waitForTimeout(2000) after setDeliveryLocation
PostLocation(u) ==
    /\ pc[u] = "postloc"
    /\ \E threw \in BOOLEAN :
         IF threw
         THEN HandlerThrows(u)
         ELSE /\ pc' = [pc EXCEPT ![u] = "wait"]
              /\ UNCHANGED <<retryCount, queue, phases, listing, resultsFound, products,
                             savedCount, locRet>>
    /\ UNCHANGED <<notRunVars, variant, nUrls, maxRequestRetries, maxConcurrency, locationRequested,
                   maxProductsPerSearch, mainPc, sink, FAILED_URLS, failedUrls,
                   locationSetGlobally, locCalls, locReturns>>

\* const resultsFound = await waitForSearchResults(page, log); if (!resultsFound) ...
WaitForResults(u) ==
    /\ pc[u] = "wait"
    /\ \E appeared \in BOOLEAN, other \in BOOLEAN :
         /\ listing' = [listing EXCEPT ![u] = IF appeared THEN "yes" ELSE "no"]
         /\ resultsFound' = [resultsFound EXCEPT ![u] =
                IF waitForSearchResults(appeared, other) THEN "true" ELSE "false"]
         /\ pc' = [pc EXCEPT ![u] = AfterWait(waitForSearchResults(appeared, other))]
    /\ phases' = [phases EXCEPT ![u] = Append(@, "wait")]
    /\ UNCHANGED <<notRunVars, variant, nUrls, maxRequestRetries, maxConcurrency, locationRequested,
                   maxProductsPerSearch, mainPc, queue, retryCount, products, savedCount,
                   locRet, sink, FAILED_URLS, failedUrls, locationSetGlobally, locCalls,
                   locReturns>>

\* await autoScroll(page, log, scrollCount, ...): returns normally
Scroll(u) ==
    /\ pc[u] = "scroll"
    /\ pc' = [pc EXCEPT ![u] = AfterScroll]
    /\ phases' = [phases EXCEPT ![u] = Append(@, "scroll")]
    /\ UNCHANGED <<notRunVars, variant, nUrls, maxRequestRetries, maxConcurrency, locationRequested,
                   maxProductsPerSearch, mainPc, queue, retryCount, listing, resultsFound,
                   products, savedCount, locRet, sink, FAILED_URLS, failedUrls,
                   locationSetGlobally, locCalls, locReturns>>

\* const products = await extract...(page, log); if (products.length === 0) return
Extract(u) ==
    /\ pc[u] = "extract"
    /\ \E n \in 0..MaxProducts :
         /\ products' = [products EXCEPT ![u] = n]
         /\ pc' = [pc EXCEPT ![u] = AfterExtract(n)]
    /\ phases' = [phases EXCEPT ![u] = Append(@, "extract")]
    /\ UNCHANGED <<notRunVars, variant, nUrls, maxRequestRetries, maxConcurrency, locationRequested,
                   maxProductsPerSearch, mainPc, queue, retryCount, listing, resultsFound,
                   savedCount, locRet, sink, FAILED_URLS, failedUrls, locationSetGlobally,
                   locCalls, locReturns>>

\* variant 1: one Dataset.pushData(product) per record of the slice;
\* variants 2, 3: one Dataset.pushData(productsToSave) for the whole slice.
Save(u) ==
    /\ pc[u] = "save"
    /\ \E threw \in BOOLEAN :
         IF threw
         THEN /\ HandlerThrows(u)
              /\ UNCHANGED sink
         ELSE /\ IF variant = 1
                 THEN /\ sink' = [sink EXCEPT ![u] = Append(@, savedCount[u] + 1)]
                      /\ savedCount' = [savedCount EXCEPT ![u] = @ + 1]
                 ELSE /\ sink' = [sink EXCEPT ![u] = @ \o [i \in 1..ToSave(products[u]) |-> i]]
                      /\ savedCount' = [savedCount EXCEPT ![u] = ToSave(products[u])]
              /\ pc' = [pc EXCEPT ![u] =
                     IF savedCount'[u] = ToSave(products[u]) THEN "handled" ELSE "save"]
              /\ UNCHANGED <<retryCount, queue, phases, listing, resultsFound, products,
                             locRet>>
    /\ UNCHANGED <<notRunVars, variant, nUrls, maxRequestRetries, maxConcurrency, locationRequested,
                   maxProductsPerSearch, mainPc, FAILED_URLS, failedUrls,
                   locationSetGlobally, locCalls, locReturns>>

\* failedRequestHandler: const failedUrls = await Actor.getValue('FAILED_URLS') || []
FailedGet(u) ==
    /\ pc[u] = "failedGet"
    /\ failedUrls' = [failedUrls EXCEPT ![u] = FAILED_URLS]
    /\ pc' = [pc EXCEPT ![u] = "failedSet"]
    /\ UNCHANGED <<notRunVars, variant, nUrls, maxRequestRetries, maxConcurrency, locationRequested,
                   maxProductsPerSearch, mainPc, queue, retryCount, phases, listing,
                   resultsFound, products, savedCount, locRet, sink, FAILED_URLS,
                   locationSetGlobally, locCalls, locReturns>>

\* failedUrls.push({url, timestamp}); await Actor.setValue('FAILED_URLS', failedUrls)
FailedSet(u) ==
    /\ pc[u] = "failedSet"
    /\ FAILED_URLS' = Append(failedUrls[u], u)
    /\ failedUrls' = [failedUrls EXCEPT ![u] = << >>]
    /\ pc' = [pc EXCEPT ![u] = "failed"]
    /\ UNCHANGED <<notRunVars, variant, nUrls, maxRequestRetries, maxConcurrency, locationRequested,
                   maxProductsPerSearch, mainPc, queue, retryCount, phases, listing,
                   resultsFound, products, savedCount, locRet, sink,
                   locationSetGlobally, locCalls, locReturns>>

NextRun ==
    \/ MainStart
    \/ MainExit
    \/ \E u \in Urls : StartRequest(u)
    \/ \E u \in Urls : Load(u)
    \/ \E u \in Urls : LocationReturns(u)
    \/ \E u \in Urls : PostLocation(u)
    \/ \E u \in Urls : WaitForResults(u)
    \/ \E u \in Urls : Scroll(u)
    \/ \E u \in Urls : Extract(u)
    \/ \E u \in Urls : Save(u)
    \/ \E u \in Urls : FailedGet(u)
    \/ \E u \in Urls : FailedSet(u)

Spec == InitRun /\ [][NextRun]_vars

\* One target URL: what a single request goes through, retries included.
InitSession == InitRun /\ nUrls = 1

SpecSession == InitSession /\ [][NextRun]_vars

\* No target URL or one: the start of the program with and without work.
InitFewTargets == InitRun /\ nUrls <= 1

SpecFewTargets == InitFewTargets /\ [][NextRun]_vars

\* The two scripts whose handler looks at isFirstRequest / isFirst.
InitFirstRequest == InitRun /\ variant \in {2, 3}

SpecFirstRequest == InitFirstRequest /\ [][NextRun]_vars

\* ------------------------------------------------- location setup functions
\* Lengths of the selector lists the functions walk.
NLocationBarSelectors == 4
NModalSelectors == 5
NInputSelectors == 4
NLocationListSelectors == 4
NLocationInputSelectors == 5
NSuggestionSelectors == 4
NLocationSelectors == 3

\* (mutant: an outer catch that rethrows)
MutLocationCatch ==
    "threw"

\* What the function's outer catch block hands to the caller.
LocationCatch ==
    "false"

\* (mutant: every script going on with the flow when no location bar was found)
MutMissingBarIsFatal(v) ==
    FALSE

\* Whether script v returns false when it found no location bar to click:
\* the first and third do, the second logs "looking for modal..." and goes on.
MissingBarIsFatal(v) ==
    v # 2

LocReturn(val) ==
    /\ lpc' = "returned"
    /\ lret' = val
    /\ lidx' = 0
    /\ lflag' = FALSE

LocGoto(stage) ==
    /\ lpc' = stage
    /\ lidx' = 1
    /\ lflag' = FALSE
    /\ lret' = lret

LocNextSelector ==
    /\ lpc' = lpc
    /\ lidx' = lidx + 1
    /\ lret' = lret

LocStepFrame ==
    /\ lsteps' = lsteps + 1
    /\ UNCHANGED <<runVars, scrollVars, extVars, priceVars, cardVars>>

\* ---- variant 1: setLocation
\* await page.waitForTimeout(2000)
SetLocationStart ==
    /\ variant = 1 /\ lpc = "start"
    /\ \E o \in {"ok", "throws"} :
         IF o = "ok" THEN LocGoto("bar") ELSE LocGoto("catch")
    /\ UNCHANGED lacts
    /\ LocStepFrame

\* for (const selector of locationBarSelectors) { count; click; flag; wait; break }
SetLocationBar ==
    /\ variant = 1 /\ lpc = "bar"
    /\ \E o \in {"absent", "clickThrows", "waitThrows", "ok"} :
         LET clicked == o \in {"waitThrows", "ok"}
             flag == lflag \/ clicked
             last == o = "ok" \/ lidx = NLocationBarSelectors
         IN /\ lacts' = IF clicked THEN Append(lacts, "clickBar")
                        ELSE IF last /\ ~flag THEN Append(lacts, "noBar")
                        ELSE lacts
            /\ IF last
               THEN IF flag \/ ~MissingBarIsFatal(variant)
                    THEN LocGoto("modal") ELSE LocReturn("false")
               ELSE LocNextSelector /\ lflag' = flag
    /\ LocStepFrame

\* for (const selector of modalSelectors) { waitForSelector; modalFound; break }
SetLocationModal ==
    /\ variant = 1 /\ lpc = "modal"
    /\ \E o \in {"timeout", "ok"} :
         /\ lacts' = IF o = "ok" THEN Append(lacts, "modal")
                     ELSE IF lidx = NModalSelectors THEN Append(lacts, "noModal")
                     ELSE lacts
         /\ IF o = "ok" THEN LocGoto("input")
            ELSE IF lidx = NModalSelectors THEN LocReturn("false")
            ELSE LocNextSelector /\ lflag' = lflag
    /\ LocStepFrame

\* for (const selector of inputSelectors) { count; click; fill(''); fill(pincode); wait; flag; break }
SetLocationInput ==
    /\ variant = 1 /\ lpc = "input"
    /\ \E o \in {"absent", "throwsBeforeFill", "throwsAfterFill", "ok"} :
         /\ lacts' = (IF o \in {"throwsAfterFill", "ok"} THEN Append(lacts, "typed")
                      ELSE lacts)
                     \o (IF o # "ok" /\ lidx = NInputSelectors THEN <<"noInput">>
                         ELSE << >>)
         /\ IF o = "ok" THEN LocGoto("settle")
            ELSE IF lidx = NInputSelectors THEN LocReturn("false")
            ELSE LocNextSelector /\ lflag' = lflag
    /\ LocStepFrame

\* await page.waitForTimeout(2000) before the suggestions
SetLocationSettle ==
    /\ variant = 1 /\ lpc = "settle"
    /\ \E o \in {"ok", "throws"} :
         IF o = "ok" THEN LocGoto("list") ELSE LocGoto("catch")
    /\ UNCHANGED lacts
    /\ LocStepFrame

\* for (const selector of locationListSelectors) { count; click; flag; wait; break }
SetLocationList ==
    /\ variant = 1 /\ lpc = "list"
    /\ \E o \in {"absent", "clickThrows", "waitThrows", "ok"} :
         LET clicked == o \in {"waitThrows", "ok"}
             flag == lflag \/ clicked
             last == o = "ok" \/ lidx = NLocationListSelectors
         IN /\ lacts' = IF clicked THEN Append(lacts, "suggestion")
                        ELSE IF last /\ ~flag THEN Append(lacts, "noSuggestion")
                        ELSE lacts
            /\ IF last
               THEN IF flag THEN LocGoto("verify") ELSE LocGoto("enter")
               ELSE LocNextSelector /\ lflag' = flag
    /\ LocStepFrame

\* if (!locationSelected) try { keyboard.press('Enter'); wait } catch {}
SetLocationEnter ==
    /\ variant = 1 /\ lpc = "enter"
    /\ \E o \in {"pressed", "pressThrows"} :
         lacts' = Append(lacts, IF o = "pressed" THEN "enter" ELSE "enterFails")
    /\ LocGoto("verify")
    /\ LocStepFrame

\* await page.waitForTimeout(2000); return true
SetLocationVerify ==
    /\ variant = 1 /\ lpc = "verify"
    /\ \E o \in {"ok", "throws"} :
         IF o = "ok" THEN LocReturn("true") ELSE LocGoto("catch")
    /\ UNCHANGED lacts
    /\ LocStepFrame

\* catch (error) { try { close the modal } catch {} return false }
SetLocationCatch ==
    /\ variant = 1 /\ lpc = "catch"
    /\ LocReturn(LocationCatch)
    /\ UNCHANGED lacts
    /\ LocStepFrame

\* ---- variant 2: setDeliveryLocation
\* waitForLoadState(...).catch(); await page.waitForTimeout(2000)
SetDeliveryLocationStart ==
    /\ variant = 2 /\ lpc = "start"
    /\ \E o \in {"ok", "throws"} :
         IF o = "ok" THEN LocGoto("bar") ELSE LocReturn(LocationCatch)
    /\ UNCHANGED lacts
    /\ LocStepFrame

\* locationBarExists ? click().catch(), wait : log; the flow goes on either way
SetDeliveryLocationBar ==
    /\ variant = 2 /\ lpc = "bar"
    /\ \E o \in {"throws", "absent", "clickFails", "clicked"} :
         /\ lacts' = CASE o = "clicked" -> Append(lacts, "clickBar")
                       [] o = "absent" -> Append(lacts, "noBar")
                       [] OTHER -> lacts
         /\ CASE o = "throws" -> LocReturn(LocationCatch)
              [] o = "absent" /\ MissingBarIsFatal(variant) -> LocReturn("false")
              [] OTHER -> LocGoto("input")
    /\ LocStepFrame

\* for (const selector of locationInputSelectors) { if (count > 0) { locationInput; break } }
SetDeliveryLocationInput ==
    /\ variant = 2 /\ lpc = "input"
    /\ \E o \in {"throws", "absent", "found"} :
         /\ lacts' = CASE o = "found" -> Append(lacts, "modal")
                       [] o = "absent" /\ lidx = NLocationInputSelectors ->
                            Append(lacts, "noInput")
                       [] OTHER -> lacts
         /\ CASE o = "throws" -> LocReturn(LocationCatch)
              [] o = "found" -> LocGoto("fill")
              [] o = "absent" ->
                   IF lidx = NLocationInputSelectors THEN LocReturn("false")
                   ELSE LocNextSelector /\ lflag' = lflag
    /\ LocStepFrame

\* click().catch(); wait; fill('').catch(); wait; type(searchText).catch(); wait
SetDeliveryLocationFill ==
    /\ variant = 2 /\ lpc = "fill"
    /\ \E o \in {"throws", "typeFails", "typed"} :
         /\ lacts' = IF o = "typed" THEN Append(lacts, "typed") ELSE lacts
         /\ IF o = "throws" THEN LocReturn(LocationCatch) ELSE LocGoto("list")
    /\ LocStepFrame

\* for (const selector of suggestionSelectors) { if (count > 0) try { click; wait; flag; break } catch { continue } }
SetDeliveryLocationList ==
    /\ variant = 2 /\ lpc = "list"
    /\ \E o \in {"throws", "absent", "clickThrows", "waitThrows", "ok"} :
         /\ lacts' = CASE o \in {"waitThrows", "ok"} -> Append(lacts, "suggestion")
                       [] o \in {"absent", "clickThrows"}
                          /\ lidx = NSuggestionSelectors ->
                            Append(lacts, "noSuggestion")
                       [] OTHER -> lacts
         /\ CASE o = "throws" -> LocReturn(LocationCatch)
              [] o = "ok" -> LocReturn("true")
              [] OTHER ->
                   IF lidx = NSuggestionSelectors THEN LocGoto("enter")
                   ELSE LocNextSelector /\ lflag' = lflag
    /\ LocStepFrame

\* if (!suggestionFound) { press('Enter').catch(); wait } return true
SetDeliveryLocationEnter ==
    /\ variant = 2 /\ lpc = "enter"
    /\ \E o \in {"pressFails", "pressed"}, w \in {"ok", "throws"} :
         /\ lacts' = Append(lacts, IF o = "pressed" THEN "enter" ELSE "enterFails")
         /\ IF w = "throws" THEN LocReturn(LocationCatch) ELSE LocReturn("true")
    /\ LocStepFrame

\* ---- variant 3: setPincodeLocation
\* await page.waitForLoadState('domcontentloaded'); await page.waitForTimeout(1500)
SetPincodeLocationStart ==
    /\ variant = 3 /\ lpc = "start"
    /\ \E o \in {"ok", "throws"} :
         IF o = "ok" THEN LocGoto("bar") ELSE LocReturn(LocationCatch)
    /\ UNCHANGED lacts
    /\ LocStepFrame

\* for (const selector of locationSelectors) try { if (count > 0) { click; clicked; break } } catch { continue }
SetPincodeLocationBar ==
    /\ variant = 3 /\ lpc = "bar"
    /\ \E o \in {"absent", "throws", "ok"} :
         /\ lacts' = IF o = "ok" THEN Append(lacts, "clickBar")
                     ELSE IF lidx = NLocationSelectors THEN Append(lacts, "noBar")
                     ELSE lacts
         /\ IF o = "ok" \/ (lidx = NLocationSelectors /\ ~MissingBarIsFatal(variant))
            THEN LocGoto("modal")
            ELSE IF lidx = NLocationSelectors THEN LocReturn("false")
            ELSE LocNextSelector /\ lflag' = lflag
    /\ LocStepFrame

\* wait; try { waitForSelector(modalSelector) } catch { return false }
SetPincodeLocationModal ==
    /\ variant = 3 /\ lpc = "modal"
    /\ \E o \in {"throws", "timeout", "ok"} :
         /\ lacts' = CASE o = "ok" -> Append(lacts, "modal")
                       [] o = "timeout" -> Append(lacts, "noModal")
                       [] OTHER -> lacts
         /\ CASE o = "throws" -> LocReturn(LocationCatch)
              [] o = "timeout" -> LocReturn("false")
              [] o = "ok" -> LocGoto("input")
    /\ LocStepFrame

\* wait; if (await searchInput.count() === 0) return false
SetPincodeLocationInput ==
    /\ variant = 3 /\ lpc = "input"
    /\ \E o \in {"throws", "absent", "found"} :
         /\ lacts' = IF o = "absent" THEN Append(lacts, "noInput") ELSE lacts
         /\ CASE o = "throws" -> LocReturn(LocationCatch)
              [] o = "absent" -> LocReturn("false")
              [] o = "found" -> LocGoto("fill")
    /\ LocStepFrame

\* focus; Control+A; Backspace; type(pincode); wait
SetPincodeLocationFill ==
    /\ variant = 3 /\ lpc = "fill"
    /\ \E o \in {"throws", "typed"} :
         /\ lacts' = IF o = "typed" THEN Append(lacts, "typed") ELSE lacts
         /\ IF o = "throws" THEN LocReturn(LocationCatch) ELSE LocGoto("list")
    /\ LocStepFrame

\* try { waitForSelector(address-search-item) } catch { return false }
SetPincodeLocationList ==
    /\ variant = 3 /\ lpc = "list"
    /\ \E o \in {"timeout", "ok"} :
         /\ lacts' = IF o = "timeout" THEN Append(lacts, "noSuggestion") ELSE lacts
         /\ IF o = "ok" THEN LocGoto("pick") ELSE LocReturn("false")
    /\ LocStepFrame

\* if (count > 0) { click; wait; if (modalStillOpen === 0) return true } return false
SetPincodeLocationPick ==
    /\ variant = 3 /\ lpc = "pick"
    /\ \E o \in {"throws", "absent", "stillOpen", "closed"} :
         /\ lacts' = IF o \in {"stillOpen", "closed"} THEN Append(lacts, "suggestion") ELSE lacts
         /\ CASE o = "throws" -> LocReturn(LocationCatch)
              [] o = "closed" -> LocReturn("true")
              [] OTHER -> LocReturn("false")
    /\ LocStepFrame

\* The handler calls the function.
InitLoc ==
    /\ InitRun
    /\ nUrls = 1

LocCall ==
    /\ lpc = "idle"
    /\ LocGoto("start")
    /\ UNCHANGED lacts
    /\ LocStepFrame

NextLoc ==
    \/ LocCall
    \/ SetLocationStart
    \/ SetLocationBar
    \/ SetLocationModal
    \/ SetLocationInput
    \/ SetLocationSettle
    \/ SetLocationList
    \/ SetLocationEnter
    \/ SetLocationVerify
    \/ SetLocationCatch
    \/ SetDeliveryLocationStart
    \/ SetDeliveryLocationBar
    \/ SetDeliveryLocationInput
    \/ SetDeliveryLocationFill
    \/ SetDeliveryLocationList
    \/ SetDeliveryLocationEnter
    \/ SetPincodeLocationStart
    \/ SetPincodeLocationBar
    \/ SetPincodeLocationModal
    \/ SetPincodeLocationInput
    \/ SetPincodeLocationFill
    \/ SetPincodeLocationList
    \/ SetPincodeLocationPick

SpecLoc == InitLoc /\ [][NextLoc]_vars

\* The most steps a call can take: the start, every selector of every list,
\* and the single-step stages in between.
LocMaxSteps ==
    CASE variant = 1 -> NLocationBarSelectors + NModalSelectors + NInputSelectors
                        + NLocationListSelectors + 6
      [] variant = 2 -> NLocationInputSelectors + NSuggestionSelectors + 5
      [] variant = 3 -> NLocationSelectors + 7

\* ------------------------------------------------------------- autoScroll
\* for (let i = 0; i < scrollCount; i++)
MutScrollContinues(i, n) ==
    i <= n

ScrollContinues(i, n) ==
    i < n

\* (mutant: every script swallowing a rejected scroll command)
MutScrollCatches(o) ==
    o = "waitRejected"

\* Whether a rejected operation of an iteration reaches the function's catch
\* block: variant 2 puts .catch(() => {}) on the scroll command itself.
ScrollCatches(o) ==
    \/ o = "waitRejected"
    \/ o = "commandRejected" /\ variant # 2

InitScroll ==
    /\ InitRun
    /\ nUrls = 1
    /\ maxRequestRetries = 0
    /\ maxProductsPerSearch = 1

\* The handler calls autoScroll(page, log, scrollCount[, scrollSelector]).
ScrollCall ==
    /\ spc = "idle"
    /\ spc' = "loop"
    /\ scrollCount' \in 0..MaxScrollCount
    /\ scrollContainerSelector' \in (IF variant = 1 THEN BOOLEAN ELSE {FALSE})
    /\ sItems' \in 0..MaxItems
    /\ UNCHANGED <<si, sIssued, sStable, sRejected>>
    /\ UNCHANGED <<runVars, locVars, extVars, priceVars, cardVars>>

\* One iteration: a scroll-advance command, then a fixed wait. A rejected
\* command or wait ends the function through its catch block; variant 2
\* swallows a rejected command and goes on.
ScrollIteration ==
    /\ spc = "loop"
    /\ ScrollContinues(si, scrollCount)
    /\ \E o \in {"container", "window", "commandRejected", "waitRejected"} :
         /\ o = "container" => scrollContainerSelector
         /\ \E grown \in sItems..MaxItems :
              sItems' = IF o = "commandRejected" THEN sItems ELSE grown
         /\ sStable' = IF sItems' = sItems THEN sStable + 1 ELSE 0
         /\ sIssued' = IF o = "commandRejected" THEN sIssued ELSE sIssued + 1
         /\ sRejected' = IF ScrollCatches(o) THEN "caught"
                         ELSE IF o = "commandRejected" THEN "swallowed"
                         ELSE sRejected
         /\ IF ScrollCatches(o)
            THEN spc' = "returned" /\ si' = si
            ELSE spc' = spc /\ si' = si + 1
    /\ UNCHANGED <<scrollCount, scrollContainerSelector>>
    /\ UNCHANGED <<runVars, locVars, extVars, priceVars, cardVars>>

\* After the loop: scrollTo(0, 0), a wait, and the function returns; a
\* rejection here is caught and the function returns as well.
ScrollToTop ==
    /\ spc = "loop"
    /\ ~ScrollContinues(si, scrollCount)
    /\ spc' = "returned"
    /\ UNCHANGED <<scrollCount, scrollContainerSelector, si, sIssued, sItems,
                   sStable, sRejected>>
    /\ UNCHANGED <<runVars, locVars, extVars, priceVars, cardVars>>

\* autoScroll has returned: the handler goes on with its next statement.
ScrollHandlerResumes ==
    /\ spc = "returned"
    /\ spc' = AfterScroll
    /\ UNCHANGED <<scrollCount, scrollContainerSelector, si, sIssued, sItems,
                   sStable, sRejected>>
    /\ UNCHANGED <<runVars, locVars, extVars, priceVars, cardVars>>

NextScroll ==
    \/ ScrollCall
    \/ ScrollIteration
    \/ ScrollToTop
    \/ ScrollHandlerResumes

SpecScroll == InitScroll /\ [][NextScroll]_vars

\* -------------------------------------------------------------- extractors
\* A value read from the page is null or a value.
Null == << >>
Some(x) == <<x>>

\* null, or one of the values of S.
OptionOf(S) ==
    {Null} \cup {Some(x) : x \in S}

\* JavaScript truthiness of a string-or-null and of a number-or-null.
TruthyString(v) ==
    v # Null /\ v[1] # ""

TruthyNumber(v) ==
    v # Null /\ v[1] # 0

\* What the selectors can find in one product card:
\*   primary - the card matches the variant's main card selector
\*   id      - the card's id (variant 3: the id in the product URL), "" if none
\*   name    - null without a title element, else its trimmed text
\*   image, price - null when no strategy finds one
Cards ==
    [primary : BOOLEAN,
     id : {"", "p1"},
     name : {Null, Some(""), Some("Milk")},
     image : {Null, Some("img")},
     price : {Null, Some(20)}]

\* One candidate of the preloaded state, after the || chains and the typeof
\* tests: a missing, empty or zero field, and a field of an unknown shape,
\* all come out null.  The list is empty when the state is absent, has none
\* of the known shapes, or reading it throws.
Candidates ==
    [id : {"", "s1"},
     name : {Null, Some("Milk")},
     image : {Null, Some("img")},
     price : {Null, Some(20)}]

SeqsUpTo(S, n) ==
    UNION {[1..k -> S] : k \in 0..n}

\* productId || `prefix-${n}`
ProductId(id, prefix, n) ==
    IF id # "" THEN [given |-> id, prefix |-> "", n |-> 0]
    ELSE [given |-> "", prefix |-> prefix, n |-> n]

Record(pid, c) ==
    [productId |-> pid, productName |-> c.name,
     productImage |-> c.image, currentPrice |-> c.price]

\* variant 1: if (productName || currentPrice || productImage || productId)
PrimaryGuard(c) ==
    \/ TruthyString(c.name)
    \/ TruthyNumber(c.price)
    \/ TruthyString(c.image)
    \/ c.id # ""

\* variants 2 and 3: if (productName || currentPrice || productImage)
DomGuard(c) ==
    TruthyString(c.name) \/ TruthyNumber(c.price) \/ TruthyString(c.image)

\* variant 1, fallback tier: if (hasTitle)
FallbackGuard(c) ==
    c.name # Null

RECURSIVE PrimaryTier(_, _, _)
\* variant 1: productItems.forEach((item, index) => ...)
PrimaryTier(items, index, acc) ==
    IF index > Len(items) THEN acc
    ELSE LET c == items[index]
         IN PrimaryTier(items, index + 1,
                IF ~c.threw /\ PrimaryGuard(c)
                THEN Append(acc, Record(ProductId(c.id, "product", index - 1), c))
                ELSE acc)

RECURSIVE FallbackTier(_, _, _)
\* variant 1: alternativeItems.forEach((item, index) => ...)
FallbackTier(items, index, acc) ==
    IF index > Len(items) THEN acc
    ELSE LET c == items[index]
         IN FallbackTier(items, index + 1,
                IF ~c.threw /\ FallbackGuard(c)
                THEN Append(acc, Record(ProductId(c.id, "fallback", index - 1), c))
                ELSE acc)

RECURSIVE StateTier(_, _, _)
\* variant 2: candidates.map((c, i) => ...).filter(p => name || price || image)
StateTier(cands, i, acc) ==
    IF i > Len(cands) THEN acc
    ELSE LET c == cands[i]
         IN StateTier(cands, i + 1,
                IF DomGuard(c)
                THEN Append(acc, Record(ProductId(c.id, "state", i - 1), c))
                ELSE acc)

RECURSIVE DomTier(_, _, _)
\* variant 2: productCards.forEach((card) => ...), id || `blinkit-${results.length}`
DomTier(items, i, acc) ==
    IF i > Len(items) THEN acc
    ELSE LET c == items[i]
         IN DomTier(items, i + 1,
                IF ~c.threw /\ DomGuard(c)
                THEN Append(acc, Record(ProductId(c.id, "blinkit", Len(acc)), c))
                ELSE acc)

RECURSIVE ZeptoTier(_, _, _)
\* variant 3: productLinks.forEach((link, index) => ...), id || `zepto-${index}`
ZeptoTier(items, index, acc) ==
    IF index > Len(items) THEN acc
    ELSE LET c == items[index]
         IN ZeptoTier(items, index + 1,
                IF ~c.threw /\ DomGuard(c)
                THEN Append(acc, Record(ProductId(c.id, "zepto", index - 1), c))
                ELSE acc)

\* The page's cards, each marked with whether processing it throws inside
\* the per-card try { ... } catch (err) { console.error(...) }.
Marked(page, failing) ==
    [i \in DOMAIN page |->
        [primary |-> page[i].primary, id |-> page[i].id, name |-> page[i].name,
         image |-> page[i].image, price |-> page[i].price, threw |-> i \in failing]]

\* (mutant: an outer catch that rethrows)
MutExtractCatch ==
    <<"threw", << >>>>

\* The extractor's outer catch: log, return [].
ExtractCatch ==
    <<"catch", << >>>>

\* The cards the variant's main selector matches.
MainCards(page) ==
    SelectSeq(page, LAMBDA c : c.primary)

\* (mutant: an extractor that goes on to the DOM whatever the state gave)
MutStateIsAuthoritative(parsed) ==
    FALSE

\* variant 2: if (parsed.length > 0) return parsed
StateIsAuthoritative(parsed) ==
    Len(parsed) > 0

\* <<tier, records>> of the variant's extractor on a page.
extractSearchProducts(page, cands) ==
    CASE variant = 1 ->
           LET primary == PrimaryTier(MainCards(page), 1, << >>)
           IN IF Len(primary) = 0
              THEN <<"fallback", FallbackTier(page, 1, << >>)>>
              ELSE <<"primary", primary>>
      [] variant = 2 ->
           LET parsed == StateTier(cands, 1, << >>)
           IN IF StateIsAuthoritative(parsed)
              THEN <<"state", parsed>>
              ELSE <<"dom", DomTier(MainCards(page), 1, << >>)>>
      [] variant = 3 ->
           <<"dom", ZeptoTier(MainCards(page), 1, << >>)>>

InitExtract ==
    /\ InitRun
    /\ nUrls = 1
    /\ maxRequestRetries = 0
    /\ maxProductsPerSearch = 1

\* The handler calls the extractor on the page it has loaded.
ExtractCall ==
    /\ epc = "idle"
    /\ epc' = "ready"
    /\ \E page \in SeqsUpTo(Cards, MaxCards) :
         /\ variant = 3 => \A i \in 1..Len(page) : page[i].primary
         /\ epage' = page
         /\ \E cands \in SeqsUpTo(Candidates, MaxCards - Len(page)) :
              /\ variant # 2 => cands = << >>
              /\ estate' = cands
    /\ UNCHANGED <<eresult, etier, ethrew>>
    /\ UNCHANGED <<runVars, locVars, scrollVars, priceVars, cardVars>>

\* The extractor returns its records.
ExtractReturns ==
    /\ epc = "ready"
    /\ epc' = "done"
    /\ \E failing \in SUBSET (1..Len(epage)) :
         LET r == extractSearchProducts(Marked(epage, failing), estate)
         IN /\ ethrew' = failing
            /\ etier' = r[1]
            /\ eresult' = r[2]
    /\ UNCHANGED <<epage, estate>>
    /\ UNCHANGED <<runVars, locVars, scrollVars, priceVars, cardVars>>

\* page.evaluate rejects: catch (error) { return [] }
ExtractThrows ==
    /\ epc = "ready"
    /\ epc' = "done"
    /\ etier' = ExtractCatch[1]
    /\ eresult' = ExtractCatch[2]
    /\ ethrew' = {}
    /\ UNCHANGED <<epage, estate>>
    /\ UNCHANGED <<runVars, locVars, scrollVars, priceVars, cardVars>>

NextExtract ==
    \/ ExtractCall
    \/ ExtractReturns
    \/ ExtractThrows

SpecExtract == InitExtract /\ [][NextExtract]_vars

\* ------------------------------------------------- image, stock flag, stamp
\* A URL string is the sequence of its pieces; "" is the empty sequence.
Origin == <<"https:", "/", "/", "blinkit.com">>

RawUrls ==
    { <<"/", "/", "cdn.grofers.com", "w=270">>,
      <<"/", "img.jpg">>,
      <<"https:", "/", "/", "cdn.grofers.com", "w=135">> }

StartsWith(str, prefix) ==
    /\ Len(str) >= Len(prefix)
    /\ SubSeq(str, 1, Len(prefix)) = prefix

\* JavaScript truthiness of a URL-or-null.
TruthyUrl(v) ==
    v # Null /\ v[1] # << >>

\* a || b
OrElse(a, b) ==
    IF TruthyUrl(a) THEN a ELSE b

\* img.src, the property: the src attribute resolved by the browser against
\* the document, "" when the attribute is missing.
SrcProperty(attr) ==
    IF attr = Null THEN Some(<< >>)
    ELSE IF StartsWith(attr[1], <<"/", "/">>) THEN Some(<<"https:">> \o attr[1])
    ELSE IF StartsWith(attr[1], <<"/">>) THEN Some(Origin \o attr[1])
    ELSE attr

\* productImage.replace('w=270', 'w=540'), else .replace('w=135', 'w=540')
Upgrade(str) ==
    IF \E i \in DOMAIN str : str[i] = "w=270"
    THEN LET i == CHOOSE i \in DOMAIN str :
                      str[i] = "w=270" /\ \A j \in 1..(i - 1) : str[j] # "w=270"
         IN [str EXCEPT ![i] = "w=540"]
    ELSE IF \E i \in DOMAIN str : str[i] = "w=135"
    THEN LET i == CHOOSE i \in DOMAIN str :
                      str[i] = "w=135" /\ \A j \in 1..(i - 1) : str[j] # "w=135"
         IN [str EXCEPT ![i] = "w=540"]
    ELSE str

\* variant 1: if (productImage) { '//' -> 'https:' + ..., '/' ->
\* 'https://blinkit.com' + ...; w=270 or w=135 -> w=540 }
NormalizeImage(v) ==
    IF ~TruthyUrl(v) THEN v
    ELSE LET abs == IF StartsWith(v[1], <<"/", "/">>) THEN <<"https:">> \o v[1]
                    ELSE IF StartsWith(v[1], <<"/">>) THEN Origin \o v[1]
                    ELSE v[1]
         IN Some(Upgrade(abs))

\* The record's productImage, by tier.  The card has one img element whose
\* src and data-src attributes are c.src and c.dataSrc; a state candidate
\* has c.stateImage.
ProductImage(c) ==
    CASE c.tier = "primary" ->
           LET first == OrElse(SrcProperty(c.src), c.src)
               lazy == IF TruthyUrl(first) \/ c.dataSrc = Null THEN first
                       ELSE OrElse(c.dataSrc, SrcProperty(c.src))
           IN NormalizeImage(lazy)
      [] c.tier = "fallback" ->
           NormalizeImage(OrElse(SrcProperty(c.src), OrElse(c.src, c.dataSrc)))
      [] c.tier = "state" -> c.stateImage
      [] c.tier = "dom" -> OrElse(SrcProperty(c.src), c.src)
      [] c.tier = "zepto" ->
           OrElse(SrcProperty(c.src), OrElse(c.dataSrc, Null))

\* The record's isOutOfStock, by tier; null where the record has no such key.
IsOutOfStock(c) ==
    CASE c.tier = "primary" ->
           Some(c.signals \cap {"text", "greyOverlay", "dimmedImage", "overlayText"} # {})
      [] c.tier = "fallback" -> Some("text" \in c.signals)
      [] c.tier = "state" -> Null
      [] c.tier = "dom" -> Some("overlayText" \in c.signals)
      [] c.tier = "zepto" -> Some("attribute" \in c.signals)

\* scrapedAt: new Date().toISOString(); the state tier's records have none.
ScrapedAt(c, now) ==
    IF c.tier = "state" THEN Null ELSE Some(now)

\* The prefix of the id the tier makes up for a card without one.
IdPrefix(tier) ==
    CASE tier = "primary" -> "product"
      [] tier = "fallback" -> "fallback"
      [] tier = "state" -> "state"
      [] tier = "dom" -> "blinkit"
      [] tier = "zepto" -> "zepto"

RecordAt(c, now, pid) ==
    [productId |-> pid, productImage |-> ProductImage(c),
     isOutOfStock |-> IsOutOfStock(c), scrapedAt |-> ScrapedAt(c, now)]

\* (mutant: a made-up id taken from the clock instead of the card's position)
MutCardRecord(c, now) ==
    RecordAt(c, now, ProductId(c.id, IdPrefix(c.tier), now))

\* The record the tier pushes for the card.
CardRecord(c, now) ==
    RecordAt(c, now, ProductId(c.id, IdPrefix(c.tier), c.index))

\* The tiers of the running script.
CardTiers ==
    CASE variant = 1 -> {"primary", "fallback"}
      [] variant = 2 -> {"state", "dom"}
      [] variant = 3 -> {"zepto"}

\* The out-of-stock marks a card can show: 'Out of Stock' somewhere in its
\* text, that text inside the centred overlay, the grey overlay, the dimmed
\* image (Blinkit), the data-is-out-of-stock="true" attribute (Zepto).
SignalSets ==
    IF variant = 3 THEN SUBSET {"text", "attribute"}
    ELSE {S \in SUBSET {"text", "overlayText", "greyOverlay", "dimmedImage"} :
             "overlayText" \in S => "text" \in S}

InitCard ==
    /\ InitRun
    /\ nUrls = 1
    /\ maxRequestRetries = 0
    /\ maxProductsPerSearch = 1

\* The extractor reaches a card (a candidate, in the state tier) with a title.
CardCall ==
    /\ kpc = "idle"
    /\ kpc' = "ready"
    /\ \E tier \in CardTiers, id \in {"", "p1"}, index \in 0..(MaxCards - 1),
          src \in OptionOf(RawUrls), dataSrc \in OptionOf(RawUrls),
          stateImage \in OptionOf(RawUrls), signals \in SignalSets :
         /\ tier = "state" => src = Null /\ dataSrc = Null /\ signals = {}
         /\ tier # "state" => stateImage = Null
         /\ kcard' = [tier |-> tier, id |-> id, index |-> index, src |-> src,
                      dataSrc |-> dataSrc, stateImage |-> stateImage,
                      signals |-> signals]
    /\ UNCHANGED <<know, kfirst, ksecond>>
    /\ UNCHANGED <<runVars, locVars, scrollVars, extVars, priceVars>>

\* One run of the extractor over the unchanged page, at the clock's time.
CardExtract ==
    /\ kpc \in {"ready", "once"}
    /\ \E now \in know..MaxClock :
         /\ know' = now
         /\ IF kpc = "ready"
            THEN /\ kpc' = "once"
                 /\ kfirst' = CardRecord(kcard, now)
                 /\ UNCHANGED ksecond
            ELSE /\ kpc' = "twice"
                 /\ ksecond' = CardRecord(kcard, now)
                 /\ UNCHANGED kfirst
    /\ UNCHANGED kcard
    /\ UNCHANGED <<runVars, locVars, scrollVars, extVars, priceVars>>

NextCard ==
    \/ CardCall
    \/ CardExtract

SpecCard == InitCard /\ [][NextCard]_vars

\* -------------------------------------------------------- price and discount
\* Prices in whole rupees; the N of the badges a card can show.
Prices == 0..MaxPrice
BadgeValues == {0, 10, 100}

\* Math.round(((originalPrice - currentPrice) / originalPrice) * 100)
RoundPercent(original, current) ==
    ((original - current) * 200 + original) \div (2 * original)

\* if (currentPrice && originalPrice && originalPrice > currentPrice)
Computable(current, original) ==
    /\ TruthyNumber(current)
    /\ TruthyNumber(original)
    /\ original[1] > current[1]

\* The record's discountPercentage.  Variant 1 takes parseInt of the badge
\* first and computes only when that left nothing truthy; variants 2 and 3
\* only compute.
DiscountPercentage(current, original, badge) ==
    LET fromBadge == IF variant = 1 THEN badge ELSE Null
    IN IF ~TruthyNumber(fromBadge) /\ Computable(current, original)
       THEN Some(RoundPercent(original[1], current[1]))
       ELSE fromBadge

\* The guard on the card: other = productName || productImage (|| productId).
Emitted(current, other) ==
    other \/ TruthyNumber(current)

InitPrice ==
    /\ InitRun
    /\ nUrls = 1
    /\ maxRequestRetries = 0
    /\ maxProductsPerSearch = 1

\* The extractor reaches a card with these price texts.
PriceCall ==
    /\ qpc = "idle"
    /\ qpc' = "ready"
    /\ qcurrent' \in OptionOf(Prices)
    /\ qoriginal' \in OptionOf(Prices)
    /\ qbadge' \in (IF variant = 1 THEN OptionOf(BadgeValues) ELSE {Null})
    /\ qother' \in BOOLEAN
    /\ UNCHANGED <<qemitted, qdiscount>>
    /\ UNCHANGED <<runVars, locVars, scrollVars, extVars, cardVars>>

\* The extractor derives the discount and applies the guard.
PriceReturns ==
    /\ qpc = "ready"
    /\ qpc' = "done"
    /\ qemitted' = Emitted(qcurrent, qother)
    /\ qdiscount' = DiscountPercentage(qcurrent, qoriginal, qbadge)
    /\ UNCHANGED <<qcurrent, qoriginal, qbadge, qother>>
    /\ UNCHANGED <<runVars, locVars, scrollVars, extVars, cardVars>>

NextPrice ==
    \/ PriceCall
    \/ PriceReturns

SpecPrice == InitPrice /\ [][NextPrice]_vars

\* ================================================================ claims
Has(s, x) == \E i \in DOMAIN s : s[i] = x

Rank(p) ==
    CASE p = "location" -> 1
      [] p = "wait" -> 2
      [] p = "scroll" -> 3
      [] p = "extract" -> 4

\* The handler of u goes from outside the location setup into it in this step.
InvokesLocation(u) == pc[u] # "loc" /\ pc'[u] = "loc"

\* ---------------------------------------------------------------- C1
\* C1 (as stated): if no listing element appears while waiting for results,
\* the handler has returned normally right after the wait, without scrolling,
\* extracting or appending anything, in every variant.
C1_NoListingAborts ==
    \A u \in Urls :
        listing[u] = "no" =>
            /\ pc[u] = "handled"
            /\ ~Has(phases[u], "scroll")
            /\ ~Has(phases[u], "extract")
            /\ savedCount[u] = 0

\* C1 (amended): in variants 2 and 3, when waitForSearchResults returns
\* false the handler returns normally at once: no scroll, no extraction,
\* nothing in the sink, the URL neither retried from there nor in FAILED_URLS.
C1_NotFoundAborts ==
    \A u \in Urls :
        (variant \in {2, 3} /\ resultsFound[u] = "false") =>
            /\ pc[u] = "handled"
            /\ ~Has(phases[u], "scroll")
            /\ ~Has(phases[u], "extract")
            /\ products[u] = 0
            /\ savedCount[u] = 0
            /\ sink[u] = << >>
            /\ ~Has(FAILED_URLS, u)

C1_Witness ==
    \E u \in Urls :
        /\ variant = 3
        /\ listing[u] = "no"
        /\ resultsFound[u] = "false"
        /\ pc[u] = "handled"
        /\ retryCount[u] > 0

C3_ExtractAfterLocation ==
    \A u \in Urls :
        (variant = 2 /\ locationRequested /\ Has(phases[u], "extract")) =>
            locReturns # "none"

\* ---------------------------------------------------------------- C4
\* C4 (as stated): when the run is over every target was attempted; a target
\* whose handler completed has its records in the sink, and a target that
\* exhausted its retries is in the failure log.
C4_PartialSuccess ==
    mainPc = "exited" =>
        \A u \in Urls :
            \/ /\ pc[u] = "handled"
               /\ savedCount[u] = ToSave(products[u])
               /\ Len(sink[u]) >= savedCount[u]
            \/ /\ pc[u] = "failed"
               /\ Has(FAILED_URLS, u)

\* ---------------------------------------------------------------- C5
\* C5 (as stated): a URL whose failedRequestHandler has finished is in
\* FAILED_URLS and stays there, whatever the other sessions do.
C5_NoLostFailure ==
    \A u \in Urls : pc[u] = "failed" => Has(FAILED_URLS, u)

\* ---------------------------------------------------------------- C6
\* C6: every record an extractor returns has a non-null productName,
\* productImage or currentPrice; a card with all three null is never
\* emitted, even when it has an id.
C6_NoEmptyShell ==
    \A i \in 1..Len(eresult) :
        \/ eresult[i].productName # Null
        \/ eresult[i].productImage # Null
        \/ eresult[i].currentPrice # Null

\* ---------------------------------------------------------------- C7
\* C7: whatever the page operations do, a location setup function that was
\* called takes a bounded number of steps, can always take its next step
\* until it returns, and hands the caller true or false, never an exception.
C7_LocationReturnsBoolean ==
    /\ lret \in {"none", "true", "false"}
    /\ lsteps <= LocMaxSteps
    /\ (lpc = "returned") = (lret # "none")
    /\ lpc \notin {"idle", "returned"} => ENABLED NextLoc

C7_Witness ==
    /\ lpc = "returned"
    /\ lret = "false"
    /\ variant = 1
    /\ Has(lacts, "typed")
    /\ lsteps > NLocationBarSelectors

\* ---------------------------------------------------------------- C8
\* C8: when the location setup returns false the handler goes on to the
\* next step exactly as after true; the request is not retried, not failed,
\* and a handler that then returned has waited for results, and has scrolled
\* and extracted when results were found.
C8_LocationFailureIgnored ==
    /\ [](\A u \in Urls :
            (locRet[u] = "false" /\ pc[u] = "handled") =>
                /\ Has(phases[u], "wait")
                /\ resultsFound[u] = "true" =>
                       (Has(phases[u], "scroll") /\ Has(phases[u], "extract")))
    /\ [][\A u \in Urls :
            (pc[u] = "loc" /\ pc'[u] # "loc" /\ locRet'[u] = "false") =>
                /\ pc'[u] \in {"load", "postloc", "wait"}
                /\ retryCount'[u] = retryCount[u]
                /\ FAILED_URLS' = FAILED_URLS]_vars

C8_Witness ==
    \E u \in Urls :
        /\ locRet[u] = "false"
        /\ pc[u] = "handled"
        /\ Has(phases[u], "extract")
        /\ savedCount[u] > 0

\* ---------------------------------------------------------------- C9
\* C9: within one invocation the finished phases are in the order location,
\* wait, scroll, extract, each at most once, and a phase is entered only
\* when the one before it has returned.
C9_PhasesSequential ==
    \A u \in Urls :
        /\ \A i \in DOMAIN phases[u], j \in DOMAIN phases[u] :
               i < j => Rank(phases[u][i]) < Rank(phases[u][j])
        /\ pc[u] = "loc" => phases[u] = << >>
        /\ pc[u] = "wait" => (phases[u] = << >> \/ phases[u] = <<"location">>)
        /\ pc[u] = "scroll" => phases[u][Len(phases[u])] = "wait"
        /\ pc[u] = "extract" => phases[u][Len(phases[u])] = "scroll"
        /\ pc[u] = "save" => phases[u][Len(phases[u])] = "extract"

C9_Witness ==
    \E u \in Urls :
        /\ phases[u] = <<"location", "wait", "scroll", "extract">>
        /\ pc[u] = "save"

\* ---------------------------------------------------------------- C10
\* C10: autoScroll never runs more loop iterations, and never issues more
\* scroll-advance commands, than the configured scrollCount, and it can
\* always take its next step until it returns, whether the page's item
\* count grows or stalls.
C10_ScrollBounded ==
    /\ si <= scrollCount
    /\ sIssued <= scrollCount
    /\ spc = "loop" => ENABLED NextScroll

C10_Witness ==
    /\ spc = "returned"
    /\ scrollCount = MaxScrollCount
    /\ sIssued = scrollCount
    /\ sItems = 0

\* ---------------------------------------------------------------- C11
\* C11: once the page's item count has stayed the same over 3 consecutive
\* iterations, autoScroll issues no further scroll-advance command, even
\* when fewer than scrollCount iterations have run.
C11_StopsWhenStable ==
    [][sStable >= 3 => sIssued' = sIssued]_vars

\* ---------------------------------------------------------------- C12
\* C12: once a page operation of a scroll iteration has been rejected, no
\* further scroll-advance command is issued.
C12_AnyRejectionEndsLoop ==
    [][sRejected # "none" => sIssued' = sIssued]_vars

\* C12 (amended): in variants 1 and 3 every rejected operation of an
\* iteration reaches the catch block, in variant 2 a rejected scroll command
\* is swallowed and only a rejected wait reaches it; once the catch block is
\* reached no further scroll-advance command is issued, autoScroll returns,
\* and the handler's next step is the extractor.
C12_CaughtRejectionEndsLoop ==
    /\ [](/\ variant # 2 => sRejected # "swallowed"
          /\ sRejected = "caught" => spc \in {"returned", "extract"}
          /\ spc = "returned" => ENABLED ScrollHandlerResumes)
    /\ [][/\ sRejected = "caught" => sIssued' = sIssued
          /\ spc = "returned" /\ spc' # spc => spc' = "extract"]_vars

C12_Witness ==
    /\ sRejected = "caught"
    /\ spc = "extract"
    /\ si < scrollCount
    /\ sIssued > 0

\* ---------------------------------------------------------------- C13
\* C13: an attempt of a URL starts only with retryCount <= maxRequestRetries
\* and every re-queue raises retryCount by one, so there are at most
\* maxRequestRetries + 1 attempts; failedRequestHandler runs for a URL only
\* after the attempt with retryCount = maxRequestRetries has thrown; it
\* appends the URL once, the failure log changes in no other way, and a
\* failed URL is never queued or attempted again.
Count(seq, x) ==
    Cardinality({i \in DOMAIN seq : seq[i] = x})

ExtractedNothing(u) ==
    /\ pc[u] = "extract"
    /\ pc'[u] # "extract"
    /\ products'[u] = 0

C14_EmptyExtractionReturns ==
    /\ [][\A u \in Urls :
            /\ ExtractedNothing(u)
                 => /\ pc'[u] = "handled"
                    /\ sink' = sink
                    /\ FAILED_URLS' = FAILED_URLS
                    /\ failedUrls' = failedUrls
                    /\ queue' = queue
                    /\ retryCount' = retryCount
            /\ (pc[u] = "handled" /\ products[u] = 0)
                 => /\ pc'[u] = "handled"
                    /\ sink'[u] = sink[u]]_vars
    /\ [](mainPc = "running" => ENABLED NextRun)

C14_Witness ==
    /\ nUrls = 2
    /\ pc[1] = "handled"
    /\ Has(phases[1], "extract")
    /\ products[1] = 0
    /\ sink[1] = << >>
    /\ retryCount[1] = 0
    /\ pc[2] = "save"
    /\ FAILED_URLS = << >>

\* ---------------------------------------------------------------- C15
\* C15: with no target URL at all the crawler is never started, no request
\* is queued or handled, the sink and the failure log stay empty, and the
\* program goes from its start straight to its exit call.
C15_NoTargetsNoWork ==
    nUrls = 0 =>
        /\ mainPc \in {"init", "exited"}
        /\ queue = << >>
        /\ FAILED_URLS = << >>
        /\ \A u \in AllUrls :
             /\ pc[u] = "none"
             /\ sink[u] = << >>
             /\ phases[u] = << >>
             /\ ~locCalls[u]
        /\ mainPc = "init" => ENABLED MainStart

C15_Witness ==
    /\ nUrls = 0
    /\ mainPc = "exited"

\* ---------------------------------------------------------------- C16
\* C16: in the second script, when the preloaded state holds n >= 1
\* candidates with a name, a price or an image, the extractor returns
\* exactly those n, in order, from the state tier and the DOM tier is not
\* run; the DOM tier is run if and only if the state holds no such candidate.
HasSignal(c) ==
    c.name # Null \/ c.price # Null \/ c.image # Null

ValidCandidates ==
    SelectSeq(estate, HasSignal)

C16_StateTierAuthoritative ==
    (variant = 2 /\ epc = "done" /\ etier # "catch") =>
        /\ etier \in {"state", "dom"}
        /\ (etier = "dom") = (Len(ValidCandidates) = 0)
        /\ etier = "state" =>
             /\ Len(eresult) = Len(ValidCandidates)
             /\ \A i \in 1..Len(eresult) :
                  /\ eresult[i].productName = ValidCandidates[i].name
                  /\ eresult[i].productImage = ValidCandidates[i].image
                  /\ eresult[i].currentPrice = ValidCandidates[i].price

C16_Witness ==
    /\ variant = 2
    /\ epc = "done"
    /\ etier = "state"
    /\ Len(estate) = 1
    /\ Len(eresult) = 1
    /\ Len(epage) = 1
    /\ epage[1].primary
    /\ epage[1].name = Some("Milk")
    /\ estate[1].name = Null
    /\ estate[1].price = Some(20)

\* ---------------------------------------------------------------- C17
\* C17: in every script, an extraction whose DOM tier yields zero records
\* goes through the fallback tier before it returns, and the fallback tier
\* is run only then: a result that comes straight from the DOM tier is
\* never empty.
C17_FallbackOnEmptyDom ==
    epc = "done" =>
        /\ etier \in {"dom", "primary"} => Len(eresult) >= 1
        /\ etier = "fallback" =>
             Len(PrimaryTier(MainCards(Marked(epage, ethrew)), 1, << >>)) = 0

\* ---------------------------------------------------------------- C18
\* C18: the list one extraction returns holds no two records with the same
\* productId.
C18_NoDuplicateIds ==
    \A i, j \in 1..Len(eresult) :
        i # j => eresult[i].productId # eresult[j].productId

\* ---------------------------------------------------------------- C19
\* C19: every emitted record with a non-null discount percentage has both
\* prices, the discount is strictly between 0 and 100, and it equals the
\* rounded percentage computed from the two prices.
C19_DiscountConsistent ==
    (qpc = "done" /\ qemitted /\ qdiscount # Null) =>
        /\ qcurrent # Null
        /\ qoriginal # Null
        /\ 0 < qdiscount[1]
        /\ qdiscount[1] < 100
        /\ qoriginal[1] > 0
        /\ qdiscount[1] = RoundPercent(qoriginal[1], qcurrent[1])

\* ---------------------------------------------------------------- C20
\* C20: every emitted record with both prices and originalPrice above
\* currentPrice (currentPrice 0 included) has a non-null discount percentage
\* equal to the value computed from the two prices.
C20_DiscountRecomputed ==
    (/\ qpc = "done"
     /\ qemitted
     /\ qcurrent # Null
     /\ qoriginal # Null
     /\ qoriginal[1] > qcurrent[1]) =>
        /\ qdiscount # Null
        /\ qdiscount[1] = RoundPercent(qoriginal[1], qcurrent[1])

\* ---------------------------------------------------------------- C21
\* C21: an extractor always hands the handler a list: the empty list when
\* the page evaluation throws, and otherwise one record for every card of
\* the tier that passes the tier's guard and whose processing did not throw;
\* a card whose processing threw takes no other card's record with it.
Kept(i) ==
    i \notin ethrew /\
    CASE etier = "primary" -> epage[i].primary /\ PrimaryGuard(epage[i])
      [] etier = "fallback" -> FallbackGuard(epage[i])
      [] etier = "dom" -> epage[i].primary /\ DomGuard(epage[i])
      [] OTHER -> FALSE

KeptCards ==
    SelectSeq([i \in DOMAIN epage |-> IF Kept(i) THEN epage[i] ELSE Null],
              LAMBDA c : c # Null)

AppendedByInvocation(u) ==
    SubSeq(sink[u], Len(sink[u]) - savedCount[u] + 1, Len(sink[u]))

C22_SavesFirstRecords ==
    \A u \in Urls :
        pc[u] = "handled" =>
            /\ savedCount[u] <= Len(sink[u])
            /\ savedCount[u] = Min(products[u], maxProductsPerSearch)
            /\ AppendedByInvocation(u) =
                   [i \in 1..Min(products[u], maxProductsPerSearch) |-> i]

C22_Witness ==
    \E u \in Urls :
        /\ pc[u] = "handled"
        /\ products[u] = 2
        /\ maxProductsPerSearch = 1
        /\ sink[u] = <<1>>

\* ---------------------------------------------------------------- C23
\* C23: every record in the sink carries the search term, the requested
\* location, the resolved location label and the platform tag, whichever
\* script's handler saved it.
SearchTermKeys == {"searchQuery"}

RequestedLocationKeys == {"requestedPincode", "pincode"}

ResolvedLocationKeys == {"deliveryLocation"}

PlatformKeys == {"platform"}

C23_RecordsCarryMetadata ==
    \A u \in Urls :
        sink[u] # << >> =>
            /\ MetadataKeys(variant) \cap SearchTermKeys # {}
            /\ MetadataKeys(variant) \cap RequestedLocationKeys # {}
            /\ MetadataKeys(variant) \cap ResolvedLocationKeys # {}
            /\ MetadataKeys(variant) \cap PlatformKeys # {}

\* ---------------------------------------------------------------- C24
\* C24: a location function that filled the input and found no suggestion
\* has pressed Enter on the typed value (or tried to) by the time it
\* returns; it does not return for want of a suggestion without that try.
After(seq, x, ys) ==
    \E i \in DOMAIN seq :
        /\ seq[i] = x
        /\ \E j \in DOMAIN seq : j > i /\ seq[j] \in ys

C24_EnterBeforeFailed ==
    (lpc = "returned" /\ Has(lacts, "typed") /\ Has(lacts, "noSuggestion")) =>
        After(lacts, "noSuggestion", {"enter", "enterFails"})

\* ---------------------------------------------------------------- C28
\* C28: a location function returns true only after it clicked a location
\* bar element, then found the modal or its input, then entered the text
\* into the input, in this order.
InOrder(seq, x, y, z) ==
    \E i, j, k \in DOMAIN seq :
        /\ i < j /\ j < k
        /\ seq[i] = x /\ seq[j] = y /\ seq[k] = z

C28_ConfirmedOnlyAfterEveryState ==
    lret = "true" => InOrder(lacts, "clickBar", "modal", "typed")

\* ---------------------------------------------------------------- C29
\* C29 (as claimed): once a location function has found no location bar,
\* no modal or no input, that finding is the last thing it does and it
\* returns false.
Fatal(marker) ==
    Has(lacts, marker) =>
        /\ lpc = "returned"
        /\ lret = "false"
        /\ lacts[Len(lacts)] = marker

C29_FailedAbsorbing ==
    Fatal("noBar") /\ Fatal("noModal") /\ Fatal("noInput")

\* C29 (amended): once a location function has found no modal or no input,
\* or, in the first and third scripts, no location bar, that finding is the
\* last thing it does and it returns false; the second script goes on when
\* the location bar is missing.
C29_FailedAbsorbingPastBar ==
    /\ Fatal("noModal")
    /\ Fatal("noInput")
    /\ variant # 2 => Fatal("noBar")

C29_Witness ==
    /\ variant = 2
    /\ lpc = "returned"
    /\ lret = "false"
    /\ lacts = <<"noBar", "noInput">>

\* ---------------------------------------------------------------- C30
\* C30: over all attempts of a URL's handler, retries included, no extracted
\* record is appended to the sink more than once.
C30_AppendedAtMostOnce ==
    \A u \in Urls :
        \A i, j \in DOMAIN sink[u] :
            sink[u][i] = sink[u][j] => i = j

C26_ImageAbsolute ==
    kpc \in {"once", "twice"} =>
        (kfirst.productImage # Null =>
            ~StartsWith(kfirst.productImage[1], <<"/">>))

\* ---------------------------------------------------------------- C27
\* C27: an emitted record's isOutOfStock is a boolean, and it is true
\* exactly when the card shows at least one out-of-stock mark.
C27_StockFlagFromSignals ==
    kpc \in {"once", "twice"} =>
        /\ kfirst.isOutOfStock \in {Some(TRUE), Some(FALSE)}
        /\ (kfirst.isOutOfStock = Some(TRUE)) = (kcard.signals # {})

====
